---- MODULE Spec2Model ----
(***************************************************************************)
(* Model of repokit.SpannerRepository[T] and SpannerTransactionManager,    *)
(* instantiated as the example user repository does (table tb_users,       *)
(* primary key user_id, userRowMapper, userMutationBuilder).               *)
(*                                                                         *)
(* Encoding of Go values:                                                  *)
(*   - a Go string is a natural number; 0 is the empty string "" (the      *)
(*     least string), 1, 2, ... are non-empty strings in ascending order;  *)
(*   - Go's nil interface value is NilVal;                                 *)
(*   - an error is a string, NoErr being the nil error.                    *)
(***************************************************************************)
EXTENDS Integers, Sequences, FiniteSets, TLC

\* ---------------------------------------------------------------- bounds
MaxKey == 1
MaxEmail == 2
MaxPageKey == 5
MaxPageSize == 3
MaxBuf == 2
MaxTxKey == 1
MaxTxEmail == 1
MaxCompKey == 2
MaxCompEmail == 3
MaxCompSize == 2
MaxRkKey == 2
MaxRkEmail == 1
MaxIdsKey == 1
MaxIds == 2
MaxShapeKey == 2
MaxShapeIds == 2
MaxPairKey == 1
MaxPairEmail == 2
MaxPairIds == 2
MaxScanKey == 4
MaxScanSize == 2
MaxScanRepeat == 2

\* ------------------------------------------------------- Go value encoding
NilVal == -1
NoErr == "nil"
IteratorDone == "iterator.Done"
ErrKeyShape == "key precisa ser struct"
ErrInvalidTx == "invalid transaction type"
ErrNumOfColValue == "spanner: wrong number of destinations"
ErrMissingParam == "spanner: no value for query parameter"
ErrNoColumn == "spanner: column not in row"
ErrApply == "spanner: apply failed"
ErrUow == "unit of work failed"
ErrAlreadyExists == "spanner: row already exists"
ErrDecode == "spanner: cannot decode column into destination"

Keys == 0..MaxKey
Emails == 1..MaxEmail
PageKeys == 0..MaxPageKey
TxKeys == 0..MaxTxKey
TxEmails == 1..MaxTxEmail

\* ------------------------------------------- example repository (config)
userTable == "tb_users"
primaryKey == <<"user_id">>
columns == <<"user_id", "email">>

\* domain.User and its zero value
Users == [UserID : Keys, Email : Emails]
TxUsers == [UserID : TxKeys, Email : TxEmails]
ZeroUser == [UserID |-> 0, Email |-> 0]

\* rows of tb_users
RowsOver(ks) == [user_id : ks, email : Emails]

\* the tables over a key set: at most one row per primary key
TablesOver(ks) ==
    {t \in SUBSET RowsOver(ks) : \A r1, r2 \in t : r1.user_id = r2.user_id => r1 = r2}

\* UserKey{ID: k}: one field, tagged spanner:"user_id"
UserKey(k) == [kind |-> "struct", fields |-> <<[name |-> "ID", tag |-> "user_id", val |-> k]>>]
\* a key struct whose field carries no tag
UntaggedKey(k) == [kind |-> "struct", fields |-> <<[name |-> "ID", tag |-> "", val |-> k]>>]
\* a pointer to a UserKey
PtrUserKey(k) == [kind |-> "ptr", fields |-> <<[name |-> "ID", tag |-> "user_id", val |-> k]>>]
\* a bare string passed where a key struct is expected
StringKey(k) == [kind |-> "string", fields |-> <<[name |-> "", tag |-> "", val |-> k]>>]

KeyValues ==
    {UserKey(k) : k \in Keys} \cup {UntaggedKey(k) : k \in Keys}
        \cup {PtrUserKey(k) : k \in Keys} \cup {StringKey(k) : k \in Keys}

\* the key values passed to DeleteTx inside a unit-of-work
TxKeyValues ==
    {UserKey(k) : k \in TxKeys} \cup {UntaggedKey(k) : k \in TxKeys}
        \cup {StringKey(k) : k \in TxKeys}

\* the projections callers pass as `columns` (empty means SELECT * )
Projections == {<<>>, <<"user_id">>, <<"user_id", "email">>, <<"email", "user_id">>}

\* ------------------------------------------------------------ pure helpers
\* strings.ToLower on the field names in use
ToLower(name) == CASE name = "ID" -> "id" [] OTHER -> name

\* buildColumnList: the projection the statement selects; "*" is every
\* column of the table in schema order
buildColumnList(cols) == IF Len(cols) = 0 THEN columns ELSE cols

\* buildWhereClause: the columns compared for equality, one named
\* parameter per column, the parameter named as the column
buildWhereClause(keys) == [i \in 1..Len(keys) |-> [col |-> keys[i], param |-> keys[i]]]

\* structToMap: column name -> value, or an error for a non-struct
FieldColumn(f) == IF f.tag = "" THEN ToLower(f.name) ELSE f.tag

\* a structToMap that reads fields off whatever value it is given
structToMap_NoKindCheck(key) ==
    [err |-> NoErr,
     map |-> [c \in {FieldColumn(key.fields[i]) : i \in 1..Len(key.fields)} |->
                LET i == CHOOSE j \in 1..Len(key.fields) :
                             FieldColumn(key.fields[j]) = c
                IN key.fields[i].val]]

structToMap(key) ==
    IF key.kind \notin {"struct", "ptr"}
    THEN [err |-> ErrKeyShape, map |-> <<>>]
    ELSE [err |-> NoErr,
          map |-> [c \in {FieldColumn(key.fields[i]) : i \in 1..Len(key.fields)} |->
                     LET i == CHOOSE j \in 1..Len(key.fields) :
                                  FieldColumn(key.fields[j]) = c
                     IN key.fields[i].val]]

\* params[col] on a Go map: nil for a missing entry
MapGet(m, col) == IF col \in DOMAIN m THEN m[col] ELSE NilVal

\* the key tuple built positionally from primaryKeys
KeyTuple(params, pks) == [i \in 1..Len(pks) |-> MapGet(params, pks[i])]

\* the primary key tuple of a row
RowKey(r, pks) == [i \in 1..Len(pks) |-> r[pks[i]]]

\* lexicographic order on key tuples of equal length (ORDER BY pk columns)
KeyLess(a, b) ==
    \E i \in 1..Len(a) : a[i] < b[i] /\ \A j \in 1..(i - 1) : a[j] = b[j]

\* the rows of a set as a sequence in ascending primary-key order
RECURSIVE SortRows(_, _)
SortRows(rows, pks) ==
    IF rows = {} THEN <<>>
    ELSE LET m == CHOOSE r \in rows :
                      \A o \in rows \ {r} : KeyLess(RowKey(r, pks), RowKey(o, pks))
         IN <<m>> \o SortRows(rows \ {m}, pks)

\* the first n elements of a sequence (LIMIT n)
Limit(s, n) == IF Len(s) <= n THEN s ELSE SubSeq(s, 1, n)

\* ------------------------------------------------- database capability
\* a result row: the selected column names and their values, in order
ResultRow(r, proj) == [names |-> proj, vals |-> [i \in 1..Len(proj) |-> r[proj[i]]]]

\* SELECT proj FROM t WHERE <where>: every named parameter must be bound
QueryWhere(tbl, proj, where, params) ==
    IF \E i \in 1..Len(where) : where[i].param \notin DOMAIN params
    THEN [err |-> ErrMissingParam, rows |-> <<>>]
    ELSE LET hit == {r \in tbl : \A i \in 1..Len(where) :
                                    r[where[i].col] = params[where[i].param]}
         IN [err |-> NoErr,
             rows |-> [i \in 1..Cardinality(hit) |->
                          ResultRow(SortRows(hit, primaryKey)[i], proj)]]

\* spanner.InsertOrUpdate / spanner.Delete
Upsert(r) == [kind |-> "upsert", row |-> r, key |-> RowKey(r, primaryKey)]
DeleteMut(k) == [kind |-> "delete", row |-> [user_id |-> 0, email |-> 0], key |-> k]

ApplyMutation(tbl, m) ==
    LET rest == {r \in tbl : RowKey(r, primaryKey) # m.key}
    IN IF m.kind = "upsert" THEN rest \cup {m.row} ELSE rest

\* a mutation list applied in order, atomically
RECURSIVE ApplyMutations(_, _)
ApplyMutations(tbl, ms) ==
    IF ms = <<>> THEN tbl ELSE ApplyMutations(ApplyMutation(tbl, Head(ms)), Tail(ms))

\* Row.Columns(&u.UserID, &u.Email): positional, arity must match
userRowMapper(row) ==
    IF Len(row.vals) # 2
    THEN [entity |-> ZeroUser, err |-> ErrNumOfColValue]
    ELSE [entity |-> [UserID |-> row.vals[1], Email |-> row.vals[2]], err |-> NoErr]

\* the values listed in the wrong column order
userMutationBuilder_Swapped(u) == Upsert([user_id |-> u.Email, email |-> u.UserID])

\* spanner.InsertOrUpdate(userTable, columns, {u.UserID, u.Email})
userMutationBuilder(u) == Upsert([user_id |-> u.UserID, email |-> u.Email])

\* Row.ColumnByName
ColumnByName(row, name) ==
    IF \E i \in 1..Len(row.names) : row.names[i] = name
    THEN [err |-> NoErr,
          val |-> row.vals[CHOOSE i \in 1..Len(row.names) : row.names[i] = name]]
    ELSE [err |-> ErrNoColumn, val |-> NilVal]

\* ------------------------------------------------ repository operations
\* the result of a repository call; the fields a call does not return stay
\* at their zero values
Result(entity, found, err, list, token) ==
    [entity |-> entity, found |-> found, err |-> err, list |-> list, token |-> token]

Failure(err) == Result(ZeroUser, FALSE, err, <<>>, NilVal)

\* FindByID: (entity, found, err)
FindByID(tbl, key, cols) ==
    LET sm == structToMap(key)
        q == QueryWhere(tbl, buildColumnList(cols), buildWhereClause(primaryKey), sm.map)
        m == userRowMapper(q.rows[1])
    IN IF sm.err # NoErr THEN Failure(sm.err)
       ELSE IF q.err # NoErr THEN Failure(q.err)
       ELSE IF q.rows = <<>> THEN Failure(IteratorDone)
       ELSE IF m.err # NoErr THEN Result(m.entity, FALSE, m.err, <<>>, NilVal)
       ELSE Result(m.entity, TRUE, NoErr, <<>>, NilVal)

\* Exists: FindByID with the primary-key columns as projection
Exists(tbl, key) ==
    LET f == FindByID(tbl, key, primaryKey)
    IN Result(ZeroUser, f.found, f.err, <<>>, NilVal)

\* the row loop of FindAll: decode row by row, nil result on a decode error
RECURSIVE ScanLoop(_, _)
ScanLoop(rows, results) ==
    IF rows = <<>> THEN Result(ZeroUser, FALSE, NoErr, results, NilVal)
    ELSE LET m == userRowMapper(Head(rows))
         IN IF m.err # NoErr THEN Failure(m.err)
            ELSE ScanLoop(Tail(rows), Append(results, m.entity))

\* FindAll: unconditioned SELECT, streamed from one snapshot
FindAll(tbl, cols) ==
    ScanLoop(QueryWhere(tbl, buildColumnList(cols), <<>>, <<>>).rows, <<>>)

\* spanner.KeySetFromKeys over the tuples built from the key values, in list order
KeySetFromKeys(keys) ==
    {KeyTuple(structToMap(keys[i]).map, primaryKey) : i \in 1..Len(keys)}

\* client.Single().Read(table, keySet, columns): the rows whose primary key is in the
\* key set, in primary-key order, with the columns as given
Read(tbl, keySet, cols) ==
    LET hit == {r \in tbl : RowKey(r, primaryKey) \in keySet}
    IN [i \in 1..Cardinality(hit) |-> ResultRow(SortRows(hit, primaryKey)[i], cols)]

\* a FindByIDs that reads the whole table when the key list is empty
FindByIDs_EmptyReadsAll(tbl, keys, cols) ==
    LET bad == {i \in 1..Len(keys) : structToMap(keys[i]).err # NoErr}
    IN IF bad # {}
       THEN Failure(structToMap(keys[CHOOSE i \in bad : \A j \in bad : i <= j]).err)
       ELSE IF keys = <<>>
       THEN ScanLoop(Read(tbl, {RowKey(r, primaryKey) : r \in tbl}, cols), <<>>)
       ELSE ScanLoop(Read(tbl, KeySetFromKeys(keys), cols), <<>>)

\* FindByIDs: the first key that is not a struct ends the call; otherwise one Read of
\* the key set, decoded row by row
FindByIDs(tbl, keys, cols) ==
    LET bad == {i \in 1..Len(keys) : structToMap(keys[i]).err # NoErr}
    IN IF bad # {}
       THEN Failure(structToMap(keys[CHOOSE i \in bad : \A j \in bad : i <= j]).err)
       ELSE ScanLoop(Read(tbl, KeySetFromKeys(keys), cols), <<>>)

\* a key set whose tuples follow the order in which the key struct declares its fields
KeySetFromKeysOn_FieldOrder(pks, keys) ==
    {[j \in 1..Len(pks) |-> keys[i].fields[j].val] : i \in 1..Len(keys)}

\* the spannerKeys loop of a repository whose primaryKeys are pks
KeySetFromKeysOn(pks, keys) ==
    {KeyTuple(structToMap(keys[i]).map, pks) : i \in 1..Len(keys)}

\* Read on a table whose physical key columns are pks
ReadOn(pks, tbl, keySet, cols) ==
    LET hit == {r \in tbl : RowKey(r, pks) \in keySet}
    IN [i \in 1..Cardinality(hit) |-> ResultRow(SortRows(hit, pks)[i], cols)]

\* FindByIDs of a repository whose primaryKeys are pks
FindByIDsOn(pks, tbl, keys, cols) ==
    LET bad == {i \in 1..Len(keys) : structToMap(keys[i]).err # NoErr}
    IN IF bad # {}
       THEN Failure(structToMap(keys[CHOOSE i \in bad : \A j \in bad : i <= j]).err)
       ELSE ScanLoop(ReadOn(pks, tbl, KeySetFromKeysOn(pks, keys), cols), <<>>)

\* the key tuple looked up under names the parameter map does not hold
DeleteMutation_NilKey(key) == DeleteMut([i \in 1..Len(primaryKey) |-> NilVal])

\* the mutation Delete / DeleteTx build from a key value
DeleteMutation(key) == DeleteMut(KeyTuple(structToMap(key).map, primaryKey))

\* the page token compared with >= instead of >
PageFilter_Inclusive(tbl, pks, token) ==
    IF token = NilVal \/ token = 0 THEN tbl ELSE {r \in tbl : r[pks[1]] >= token}

\* SELECT ... [WHERE pk1 > @pageToken] ORDER BY pks LIMIT @limit
PageFilter(tbl, pks, token) ==
    IF token = NilVal \/ token = 0 THEN tbl ELSE {r \in tbl : r[pks[1]] > token}

PageQuery(tbl, pks, size, token, proj) ==
    LET sorted == Limit(SortRows(PageFilter(tbl, pks, token), pks), size)
    IN [i \in 1..Len(sorted) |-> ResultRow(sorted[i], proj)]

\* the row loop that keeps the key of the first row instead of the last
RECURSIVE PageLoop_FirstKey(_, _, _, _)
PageLoop_FirstKey(rows, pks, results, lastKey) ==
    IF rows = <<>> THEN Result(ZeroUser, FALSE, NoErr, results, lastKey)
    ELSE LET m == userRowMapper(Head(rows))
             c == ColumnByName(Head(rows), pks[1])
         IN IF m.err # NoErr THEN Failure(m.err)
            ELSE IF c.err # NoErr THEN Failure(c.err)
            ELSE PageLoop_FirstKey(Tail(rows), pks, Append(results, m.entity),
                                   IF lastKey = NilVal THEN c.val ELSE lastKey)

\* the row loop of FindPage: decode, append, remember the first pk column
RECURSIVE PageLoop(_, _, _, _)
PageLoop(rows, pks, results, lastKey) ==
    IF rows = <<>> THEN Result(ZeroUser, FALSE, NoErr, results, lastKey)
    ELSE LET m == userRowMapper(Head(rows))
             c == ColumnByName(Head(rows), pks[1])
         IN IF m.err # NoErr THEN Failure(m.err)
            ELSE IF c.err # NoErr THEN Failure(c.err)
            ELSE PageLoop(Tail(rows), pks, Append(results, m.entity), c.val)

\* a FindPage that looks one row ahead and returns no token on the final page
FindPage_LookAhead(tbl, size, token, cols) ==
    LET ahead == PageQuery(tbl, primaryKey, size + 1, token, buildColumnList(cols))
        res == PageLoop(PageQuery(tbl, primaryKey, size, token, buildColumnList(cols)),
                        primaryKey, <<>>, NilVal)
    IN IF Len(ahead) <= size THEN [res EXCEPT !.token = NilVal] ELSE res

\* FindPage: (entities, nextToken, err)
FindPage(tbl, size, token, cols) ==
    PageLoop(PageQuery(tbl, primaryKey, size, token, buildColumnList(cols)),
             primaryKey, <<>>, NilVal)

\* a FindPage that never adds the WHERE clause of the page token
FindPageOn_IgnoreToken(pks, tbl, size, token, cols) ==
    PageLoop(PageQuery(tbl, pks, size, NilVal, buildColumnList(cols)), pks, <<>>, NilVal)

\* FindPage of a repository whose primaryKeys are pks
FindPageOn(pks, tbl, size, token, cols) ==
    PageLoop(PageQuery(tbl, pks, size, token, buildColumnList(cols)), pks, <<>>, NilVal)

\* an iterator that is opened and left to the caller to stop
OpenedIterator_NoDefer(open) == <<open>>

\* iter := <open>(...); defer iter.Stop(): the capability calls of a reading operation,
\* the deferred Stop runs when the operation returns, whichever return it takes
OpenedIterator(open) == <<open, "Stop">>

\* ------------------------------------------------------------------ state
VARIABLES
    table,       \* the rows of tb_users
    last,        \* the last repository call that returned: operation, arguments, results
    txPc,        \* RunInTransaction: "idle", "open" (unit-of-work running), "done"
    txBuffer,    \* mutations buffered on the ReadWriteTransaction
    txUowErr,    \* what the unit-of-work returned
    txRet,       \* what RunInTransaction returned
    committed,   \* the transactional resource was committed
    rolledBack,  \* the transactional resource was rolled back
    txSnapshot,  \* history: the table when the transaction was opened
    txDml,       \* rows inserted by DML statements run on the ReadWriteTransaction
    dbOps,       \* the capability invocations the last repository call made
    dest,        \* the caller's destination of a key-returning insert
    travPc,      \* a token-following FindPage traversal: "idle", "running", "ended"
    travSeen,    \* history: the entities the traversal has returned, in order
    travBounds   \* history: the last entity of every page the traversal returned

vars == <<table, last, txPc, txBuffer, txUowErr, txRet, committed, rolledBack,
          txSnapshot, txDml, dbOps, dest, travPc, travSeen, travBounds>>

txVars == <<txPc, txBuffer, txUowErr, txRet, committed, rolledBack, txSnapshot, txDml>>

auxVars == <<dest, travPc, travSeen, travBounds>>

Call(op, entity, key, cols, size, token, out) ==
    [op |-> op, entity |-> entity, key |-> key, keys |-> <<>>, cols |-> cols,
     size |-> size, token |-> token, out |-> out]

EntityCall(op, entity, err) == Call(op, entity, UserKey(0), <<>>, 0, NilVal, Failure(err))
KeyCall(op, key, cols, out) == Call(op, ZeroUser, key, cols, 0, NilVal, out)

InitTxIdle ==
    /\ txPc = "idle"
    /\ txBuffer = <<>>
    /\ txUowErr = NoErr
    /\ txRet = NoErr
    /\ committed = FALSE
    /\ rolledBack = FALSE
    /\ txSnapshot = {}
    /\ txDml = <<>>

InitAux ==
    /\ dbOps = <<>>
    /\ dest = NilVal
    /\ travPc = "idle"
    /\ travSeen = <<>>
    /\ travBounds = {}

Init ==
    /\ table = {}
    /\ last = KeyCall("none", UserKey(0), <<>>, Failure(NoErr))
    /\ InitTxIdle
    /\ InitAux

\* Save(entity): upsert applied at once; applyFails is the capability's verdict
Save(entity, applyFails) ==
    /\ table' = IF applyFails THEN table
                ELSE ApplyMutations(table, <<userMutationBuilder(entity)>>)
    /\ last' = EntityCall("Save", entity, IF applyFails THEN ErrApply ELSE NoErr)
    /\ dbOps' = <<"Apply">>
    /\ UNCHANGED <<txVars, auxVars>>

\* an Update that refuses an entity whose key has no row
Update_RequiresRow(entity, applyFails) ==
    LET absent == \A r \in table : r.user_id # entity.UserID
    IN /\ table' = IF applyFails \/ absent THEN table
                   ELSE ApplyMutations(table, <<userMutationBuilder(entity)>>)
       /\ last' = EntityCall("Update", entity, IF applyFails \/ absent THEN ErrApply ELSE NoErr)
       /\ dbOps' = <<"Apply">>
       /\ UNCHANGED <<txVars, auxVars>>

\* Update(entity): the same upsert as Save
Update(entity, applyFails) ==
    /\ table' = IF applyFails THEN table
                ELSE ApplyMutations(table, <<userMutationBuilder(entity)>>)
    /\ last' = EntityCall("Update", entity, IF applyFails THEN ErrApply ELSE NoErr)
    /\ dbOps' = <<"Apply">>
    /\ UNCHANGED <<txVars, auxVars>>

\* Delete(key): delete-by-key mutation applied at once
Delete(key, applyFails) ==
    LET sm == structToMap(key)
    IN /\ table' = IF sm.err # NoErr \/ applyFails THEN table
                   ELSE ApplyMutations(table, <<DeleteMutation(key)>>)
       /\ last' = KeyCall("Delete", key, <<>>,
                          Failure(IF sm.err # NoErr THEN sm.err
                                  ELSE IF applyFails THEN ErrApply ELSE NoErr))
       /\ dbOps' = IF sm.err # NoErr THEN <<>> ELSE <<"Apply">>
       /\ UNCHANGED <<txVars, auxVars>>

FindByIDCall(key, cols) ==
    /\ last' = KeyCall("FindByID", key, cols, FindByID(table, key, cols))
    /\ dbOps' = IF structToMap(key).err # NoErr THEN <<>> ELSE OpenedIterator("Query")
    /\ UNCHANGED <<table, txVars, auxVars>>

ExistsCall(key) ==
    /\ last' = KeyCall("Exists", key, <<>>, Exists(table, key))
    /\ dbOps' = IF structToMap(key).err # NoErr THEN <<>> ELSE OpenedIterator("Query")
    /\ UNCHANGED <<table, txVars, auxVars>>

FindAllCall(cols) ==
    /\ last' = KeyCall("FindAll", UserKey(0), cols, FindAll(table, cols))
    /\ dbOps' = OpenedIterator("Query")
    /\ UNCHANGED <<table, txVars, auxVars>>

FindByIDsCall(keys, cols) ==
    /\ last' = [Call("FindByIDs", ZeroUser, UserKey(0), cols, 0, NilVal,
                     FindByIDs(table, keys, cols)) EXCEPT !.keys = keys]
    /\ dbOps' = IF \E i \in 1..Len(keys) : structToMap(keys[i]).err # NoErr
                THEN <<>> ELSE OpenedIterator("Read")
    /\ UNCHANGED <<table, txVars, auxVars>>

FindPageCall(size, token, cols) ==
    /\ last' = Call("FindPage", ZeroUser, UserKey(0), cols, size, token,
                    FindPage(table, size, token, cols))
    /\ dbOps' = OpenedIterator("Query")
    /\ UNCHANGED <<table, txVars, auxVars>>

Next ==
    \/ \E e \in Users, f \in BOOLEAN : Save(e, f)
    \/ \E e \in Users, f \in BOOLEAN : Update(e, f)
    \/ \E k \in KeyValues, f \in BOOLEAN : Delete(k, f)
    \/ \E k \in KeyValues, c \in Projections : FindByIDCall(k, c)
    \/ \E k \in KeyValues : ExistsCall(k)
    \/ \E c \in Projections : FindAllCall(c)

Spec == Init /\ [][Next]_vars

\* ------------------------------------------------------------ transactions
\* the handle types a caller can pass as Transaction
TxHandles == {"*SpannerTransaction", "other"}

\* RunInTransaction is entered: the resource is opened, the unit-of-work starts
Begin ==
    /\ txPc \in {"idle", "done"}
    /\ txPc' = "open"
    /\ txBuffer' = <<>>
    /\ txUowErr' = NoErr
    /\ txRet' = NoErr
    /\ committed' = FALSE
    /\ rolledBack' = FALSE
    /\ txSnapshot' = table
    /\ txDml' = <<>>
    /\ UNCHANGED <<table, last, dbOps, auxVars>>

\* BufferWrite on the open ReadWriteTransaction
BufferWrite(buf, ms) == buf \o ms

\* the upsert applied at once instead of buffered
SaveTx_ApplyNow(tx, entity) ==
    /\ txPc = "open"
    /\ Len(txBuffer) < MaxBuf
    /\ IF tx # "*SpannerTransaction"
       THEN /\ last' = EntityCall("SaveTx", entity, ErrInvalidTx)
            /\ dbOps' = <<>>
            /\ UNCHANGED <<txBuffer, table>>
       ELSE /\ last' = EntityCall("SaveTx", entity, NoErr)
            /\ dbOps' = <<"Apply">>
            /\ txBuffer' = BufferWrite(txBuffer, <<userMutationBuilder(entity)>>)
            /\ table' = ApplyMutations(table, <<userMutationBuilder(entity)>>)
    /\ UNCHANGED <<txPc, txUowErr, txRet, committed, rolledBack, txSnapshot, txDml, auxVars>>

\* SaveTx(tx, entity)
SaveTx(tx, entity) ==
    /\ txPc = "open"
    /\ Len(txBuffer) < MaxBuf
    /\ IF tx # "*SpannerTransaction"
       THEN /\ last' = EntityCall("SaveTx", entity, ErrInvalidTx)
            /\ dbOps' = <<>>
            /\ UNCHANGED txBuffer
       ELSE /\ last' = EntityCall("SaveTx", entity, NoErr)
            /\ dbOps' = <<"BufferWrite">>
            /\ txBuffer' = BufferWrite(txBuffer, <<userMutationBuilder(entity)>>)
    /\ UNCHANGED <<table, txPc, txUowErr, txRet, committed, rolledBack, txSnapshot, txDml,
                   auxVars>>

\* UpdateTx(tx, entity)
UpdateTx(tx, entity) ==
    /\ txPc = "open"
    /\ Len(txBuffer) < MaxBuf
    /\ IF tx # "*SpannerTransaction"
       THEN /\ last' = EntityCall("UpdateTx", entity, ErrInvalidTx)
            /\ dbOps' = <<>>
            /\ UNCHANGED txBuffer
       ELSE /\ last' = EntityCall("UpdateTx", entity, NoErr)
            /\ dbOps' = <<"BufferWrite">>
            /\ txBuffer' = BufferWrite(txBuffer, <<userMutationBuilder(entity)>>)
    /\ UNCHANGED <<table, txPc, txUowErr, txRet, committed, rolledBack, txSnapshot, txDml,
                   auxVars>>

\* a DeleteTx that decodes the key before it looks at the handle
DeleteTx_KeyFirst(tx, key) ==
    LET sm == structToMap(key)
    IN /\ txPc = "open"
       /\ Len(txBuffer) < MaxBuf
       /\ IF sm.err # NoErr
          THEN /\ last' = KeyCall("DeleteTx", key, <<>>, Failure(sm.err))
               /\ dbOps' = <<>>
               /\ UNCHANGED txBuffer
          ELSE IF tx # "*SpannerTransaction"
          THEN /\ last' = KeyCall("DeleteTx", key, <<>>, Failure(ErrInvalidTx))
               /\ dbOps' = <<>>
               /\ UNCHANGED txBuffer
          ELSE /\ last' = KeyCall("DeleteTx", key, <<>>, Failure(NoErr))
               /\ dbOps' = <<"BufferWrite">>
               /\ txBuffer' = BufferWrite(txBuffer, <<DeleteMutation(key)>>)
       /\ UNCHANGED <<table, txPc, txUowErr, txRet, committed, rolledBack, txSnapshot, txDml,
                      auxVars>>

\* DeleteTx(tx, key)
DeleteTx(tx, key) ==
    LET sm == structToMap(key)
    IN /\ txPc = "open"
       /\ Len(txBuffer) < MaxBuf
       /\ IF tx # "*SpannerTransaction"
          THEN /\ last' = KeyCall("DeleteTx", key, <<>>, Failure(ErrInvalidTx))
               /\ dbOps' = <<>>
               /\ UNCHANGED txBuffer
          ELSE IF sm.err # NoErr
          THEN /\ last' = KeyCall("DeleteTx", key, <<>>, Failure(sm.err))
               /\ dbOps' = <<>>
               /\ UNCHANGED txBuffer
          ELSE /\ last' = KeyCall("DeleteTx", key, <<>>, Failure(NoErr))
               /\ dbOps' = <<"BufferWrite">>
               /\ txBuffer' = BufferWrite(txBuffer, <<DeleteMutation(key)>>)
       /\ UNCHANGED <<table, txPc, txUowErr, txRet, committed, rolledBack, txSnapshot, txDml,
                      auxVars>>

\* the example repository's DeleteTx(ctx, tx, userID): hands the bare string on as key
userTxRepositoryDeleteTx(tx, userID) == DeleteTx(tx, StringKey(userID))

\* the buffered mutations land although the unit-of-work failed
UowReturn_AlwaysApply(err) ==
    /\ txPc = "open"
    /\ txPc' = "done"
    /\ txUowErr' = err
    /\ txRet' = err
    /\ committed' = (err = NoErr)
    /\ rolledBack' = (err # NoErr)
    /\ table' = ApplyMutations(table, txDml \o txBuffer)
    /\ UNCHANGED <<last, txBuffer, txSnapshot, txDml, dbOps, auxVars>>

\* the unit-of-work's error is dropped and the resource committed
UowReturn_DropError(err) ==
    /\ txPc = "open"
    /\ txPc' = "done"
    /\ txUowErr' = err
    /\ txRet' = NoErr
    /\ committed' = TRUE
    /\ rolledBack' = FALSE
    /\ table' = ApplyMutations(table, txDml \o txBuffer)
    /\ UNCHANGED <<last, txBuffer, txSnapshot, txDml, dbOps, auxVars>>

\* the unit-of-work returns err and RunInTransaction returns: the resource is
\* rolled back on an error, committed otherwise
UowReturn(err) ==
    /\ txPc = "open"
    /\ txPc' = "done"
    /\ txUowErr' = err
    /\ txRet' = err
    /\ committed' = (err = NoErr)
    /\ rolledBack' = (err # NoErr)
    /\ table' = IF err = NoErr THEN ApplyMutations(table, txDml \o txBuffer) ELSE table
    /\ UNCHANGED <<last, txBuffer, txSnapshot, txDml, dbOps, auxVars>>

NextTx ==
    \/ Begin
    \/ \E tx \in TxHandles, e \in TxUsers : SaveTx(tx, e)
    \/ \E tx \in TxHandles, e \in TxUsers : UpdateTx(tx, e)
    \/ \E tx \in TxHandles, k \in TxKeyValues : DeleteTx(tx, k)
    \/ \E err \in {NoErr, ErrUow} : UowReturn(err)
    \/ FindAllCall(columns)

SpecTx == Init /\ [][NextTx]_vars

\* --------------------------------------------------------------- pagination
PageTables == {{[user_id |-> k, email |-> 1] : k \in S} : S \in SUBSET PageKeys}
PageSizes == 0..MaxPageSize
PageTokens == {NilVal} \cup PageKeys

InitPage ==
    /\ table \in PageTables
    /\ last = KeyCall("none", UserKey(0), <<>>, Failure(NoErr))
    /\ InitTxIdle
    /\ InitAux

NextPage ==
    \E n \in PageSizes, t \in PageTokens, c \in Projections : FindPageCall(n, t, c)

SpecPage == InitPage /\ [][NextPage]_vars

\* ------------------------------------------------- composite primary key
\* a repository of tb_users constructed with the two-column key (user_id, email)
compositeKey == <<"user_id", "email">>

CompKeys == 1..MaxCompKey
CompEmails == 1..MaxCompEmail
CompTables == SUBSET [user_id : CompKeys, email : CompEmails]
CompSizes == 1..MaxCompSize

InitComp ==
    /\ table \in CompTables
    /\ last = KeyCall("none", UserKey(0), <<>>, Failure(NoErr))
    /\ InitTxIdle
    /\ InitAux

\* one FindPage call of a caller that follows the returned tokens
TravPage(size, token) ==
    LET out == FindPageOn(compositeKey, table, size, token, <<>>)
    IN /\ last' = Call("FindPage", ZeroUser, UserKey(0), <<>>, size, token, out)
       /\ dbOps' = OpenedIterator("Query")
       /\ travSeen' = travSeen \o out.list
       /\ travBounds' = IF out.list = <<>> THEN travBounds
                        ELSE travBounds \cup {out.list[Len(out.list)]}
       /\ travPc' = IF out.list = <<>> THEN "ended" ELSE "running"
       /\ UNCHANGED <<table, txVars, dest>>

\* the first page: no token
TravStart(size) ==
    /\ travPc = "idle"
    /\ TravPage(size, NilVal)

\* the next page: the same size and the token the previous page returned
TravNext ==
    /\ travPc = "running"
    /\ last.out.err = NoErr
    /\ TravPage(last.size, last.out.token)

NextComp ==
    \/ \E n \in CompSizes : TravStart(n)
    \/ TravNext

SpecComp == InitComp /\ [][NextComp]_vars

\* ------------------------------------------------------ key-returning insert
\* the table holds a row with user_id k
HasRow(tbl, k) == \E r \in tbl : r.user_id = k

RkKeys == 1..MaxRkKey
RkEmails == 1..MaxRkEmail

\* the caller's insertSQL and params: insert the row (key, email) with key the value
\* the statement generates; returns says the statement yields the inserted key as a
\* result row (THEN RETURN user_id), without it the statement yields no row
InsertStatements == [key : RkKeys, email : RkEmails, returns : BOOLEAN]

\* destOk: *dest has a type the first column decodes into
DestKinds == BOOLEAN

\* txn.Query(stmt); iter.Next(); row.Column(0, dest) on a transaction that sees the
\* rows of visible: the error returned, the insert the transaction now holds, and the
\* value written through dest
ReturningQuery(visible, stmt, destOk, old) ==
    LET row == [user_id |-> stmt.key, email |-> stmt.email]
    IN IF HasRow(visible, stmt.key)
       THEN [err |-> ErrAlreadyExists, dml |-> <<>>, val |-> old]
       ELSE IF ~stmt.returns
       THEN [err |-> IteratorDone, dml |-> <<Upsert(row)>>, val |-> old]
       ELSE IF ~destOk
       THEN [err |-> ErrDecode, dml |-> <<Upsert(row)>>, val |-> old]
       ELSE [err |-> NoErr, dml |-> <<Upsert(row)>>, val |-> stmt.key]

RkCall(op, stmt, err) ==
    Call(op, [UserID |-> stmt.key, Email |-> stmt.email], UserKey(0), <<>>,
         0, NilVal, Failure(err))

\* a SaveReturningKey whose transaction commits whatever the callback returns
SaveReturningKey_CommitAlways(stmt, destOk) ==
    LET q == ReturningQuery(table, stmt, destOk, dest)
    IN /\ txPc # "open"
       /\ table' = ApplyMutations(table, q.dml)
       /\ dest' = q.val
       /\ last' = RkCall("SaveReturningKey", stmt, q.err)
       /\ dbOps' = <<"ReadWriteTransaction">> \o OpenedIterator("Query")
       /\ UNCHANGED <<txVars, travPc, travSeen, travBounds>>

\* a SaveReturningKey whose transaction is never committed
SaveReturningKey_NoCommit(stmt, destOk) ==
    LET q == ReturningQuery(table, stmt, destOk, dest)
    IN /\ txPc # "open"
       /\ table' = table
       /\ dest' = q.val
       /\ last' = RkCall("SaveReturningKey", stmt, q.err)
       /\ dbOps' = <<"ReadWriteTransaction">> \o OpenedIterator("Query")
       /\ UNCHANGED <<txVars, travPc, travSeen, travBounds>>

\* SaveReturningKey: its own ReadWriteTransaction, committed iff the callback returns nil
SaveReturningKey(stmt, destOk) ==
    LET q == ReturningQuery(table, stmt, destOk, dest)
    IN /\ txPc # "open"
       /\ table' = IF q.err = NoErr THEN ApplyMutations(table, q.dml) ELSE table
       /\ dest' = q.val
       /\ last' = RkCall("SaveReturningKey", stmt, q.err)
       /\ dbOps' = <<"ReadWriteTransaction">> \o OpenedIterator("Query")
       /\ UNCHANGED <<txVars, travPc, travSeen, travBounds>>

\* a SaveReturningKeyTx that commits the insert by itself
SaveReturningKeyTx_Commits(stmt, destOk) ==
    LET q == ReturningQuery(ApplyMutations(table, txDml), stmt, destOk, dest)
    IN /\ txPc = "open"
       /\ Len(txDml) < MaxBuf
       /\ table' = ApplyMutations(table, q.dml)
       /\ txDml' = txDml \o q.dml
       /\ dest' = q.val
       /\ last' = RkCall("SaveReturningKeyTx", stmt, q.err)
       /\ dbOps' = OpenedIterator("Query")
       /\ UNCHANGED <<txPc, txBuffer, txUowErr, txRet, committed, rolledBack,
                      txSnapshot, travPc, travSeen, travBounds>>

\* SaveReturningKeyTx: the same statement on the caller's open transaction, no commit
SaveReturningKeyTx(stmt, destOk) ==
    LET q == ReturningQuery(ApplyMutations(table, txDml), stmt, destOk, dest)
    IN /\ txPc = "open"
       /\ Len(txDml) < MaxBuf
       /\ txDml' = txDml \o q.dml
       /\ dest' = q.val
       /\ last' = RkCall("SaveReturningKeyTx", stmt, q.err)
       /\ dbOps' = OpenedIterator("Query")
       /\ UNCHANGED <<table, txPc, txBuffer, txUowErr, txRet, committed, rolledBack,
                      txSnapshot, travPc, travSeen, travBounds>>

\* a point read from outside any transaction
RkFind(k) ==
    /\ FindByIDCall(UserKey(k), columns)

NextRk ==
    \/ \E st \in InsertStatements, d \in DestKinds : SaveReturningKey(st, d)
    \/ Begin
    \/ \E st \in InsertStatements, d \in DestKinds : SaveReturningKeyTx(st, d)
    \/ \E err \in {NoErr, ErrUow} : UowReturn(err)
    \/ \E k \in RkKeys : RkFind(k)

SpecRk == Init /\ [][NextRk]_vars

\* ---------------------------------------------------------------- bulk read
IdsKeys == 0..MaxIdsKey
IdsTables == TablesOver(IdsKeys)

\* the key values a caller puts into the list
IdsKeyValues ==
    {UserKey(k) : k \in IdsKeys} \cup {UntaggedKey(k) : k \in IdsKeys}
        \cup {StringKey(k) : k \in IdsKeys}

RECURSIVE ListsUpTo(_, _)
ListsUpTo(S, n) ==
    IF n = 0 THEN {<<>>}
    ELSE LET shorter == ListsUpTo(S, n - 1)
         IN shorter \cup {Append(l, x) : l \in shorter, x \in S}

IdsKeyLists == ListsUpTo(IdsKeyValues, MaxIds)

\* the column lists given to Read (it takes them as they are, an empty list is not
\* replaced by the repository's columns)
IdsProjections == Projections \ {<<>>}

\* a seeded table and the arguments of the one FindByIDs call made on it
InitIds ==
    /\ table \in IdsTables
    /\ \E ks \in IdsKeyLists, c \in IdsProjections :
          last = [KeyCall("none", UserKey(0), c, Failure(NoErr)) EXCEPT !.keys = ks]
    /\ InitTxIdle
    /\ InitAux

NextIds ==
    /\ last.op = "none"
    /\ FindByIDsCall(last.keys, last.cols)

SpecIds == InitIds /\ [][NextIds]_vars

\* ------------------------------------------- bulk read, composite primary key
PairKeys == 1..MaxPairKey
PairEmails == 1..MaxPairEmail
PairTables == SUBSET [user_id : PairKeys, email : PairEmails]

\* struct{ UserID string `spanner:"user_id"`; Email string `spanner:"email"` }
PairKey(u, e) ==
    [kind |-> "struct",
     fields |-> <<[name |-> "UserID", tag |-> "user_id", val |-> u],
                  [name |-> "Email", tag |-> "email", val |-> e]>>]

\* the same key with its fields declared in the other order
PairKeyReversed(u, e) ==
    [kind |-> "struct",
     fields |-> <<[name |-> "Email", tag |-> "email", val |-> e],
                  [name |-> "UserID", tag |-> "user_id", val |-> u]>>]

PairKeyValues ==
    {PairKey(u, e) : u \in PairKeys, e \in PairEmails}
        \cup {PairKeyReversed(u, e) : u \in PairKeys, e \in PairEmails}

PairKeyLists == ListsUpTo(PairKeyValues, MaxPairIds)

\* a seeded table with key (user_id, email) and the key list of the one call made
InitPair ==
    /\ table \in PairTables
    /\ \E ks \in PairKeyLists :
          last = [KeyCall("none", UserKey(0), columns, Failure(NoErr)) EXCEPT !.keys = ks]
    /\ InitTxIdle
    /\ InitAux

FindByIDsPairCall(keys, cols) ==
    /\ last' = [Call("FindByIDs", ZeroUser, UserKey(0), cols, 0, NilVal,
                     FindByIDsOn(compositeKey, table, keys, cols)) EXCEPT !.keys = keys]
    /\ dbOps' = IF \E i \in 1..Len(keys) : structToMap(keys[i]).err # NoErr
                THEN <<>> ELSE OpenedIterator("Read")
    /\ UNCHANGED <<table, txVars, auxVars>>

NextPair ==
    /\ last.op = "none"
    /\ FindByIDsPairCall(last.keys, last.cols)

SpecPair == InitPair /\ [][NextPair]_vars

\* ------------------------------------------------------------- key shapes
\* one call of a key-taking operation, given a well-formed key or a bare string, on a
\* seeded table, outside a transaction or inside a unit-of-work that has just started
ShapeKeys == 1..MaxShapeKey
ShapeTables == SUBSET {[user_id |-> k, email |-> 1] : k \in ShapeKeys}
ShapeKeyValues == {UserKey(k) : k \in ShapeKeys} \cup {StringKey(k) : k \in ShapeKeys}
ShapeKeyLists == ListsUpTo(ShapeKeyValues, MaxShapeIds)

InitShape ==
    /\ table \in ShapeTables
    /\ last = KeyCall("none", UserKey(0), <<>>, Failure(NoErr))
    /\ InitTxIdle
    /\ InitAux

\* no repository call has been made yet
NoCallYet == last.op = "none"

NextShape ==
    \/ NoCallYet /\ \E k \in ShapeKeyValues : FindByIDCall(k, columns)
    \/ NoCallYet /\ \E k \in ShapeKeyValues : ExistsCall(k)
    \/ NoCallYet /\ \E ks \in ShapeKeyLists : FindByIDsCall(ks, columns)
    \/ NoCallYet /\ \E k \in ShapeKeyValues : Delete(k, FALSE)
    \/ NoCallYet /\ txPc = "idle" /\ Begin
    \/ NoCallYet /\ \E tx \in TxHandles, k \in ShapeKeyValues : DeleteTx(tx, k)

SpecShape == InitShape /\ [][NextShape]_vars

\* ---------------------------------------------------------- row iterators
\* one call of a reading operation on a seeded table, with arguments that take it down
\* each of its returns: rows found, no row, a statement the capability rejects, a row
\* the decoder rejects
IterKeyValues == ShapeKeyValues \cup {UntaggedKey(k) : k \in ShapeKeys}
IterSizes == 0..MaxShapeIds
IterTokens == {NilVal} \cup ShapeKeys

NextIter ==
    \/ NoCallYet /\ \E k \in IterKeyValues, c \in Projections : FindByIDCall(k, c)
    \/ NoCallYet /\ \E c \in Projections : FindAllCall(c)
    \/ NoCallYet /\ \E ks \in ShapeKeyLists, c \in IdsProjections : FindByIDsCall(ks, c)
    \/ NoCallYet /\ \E n \in IterSizes, t \in IterTokens, c \in Projections :
                        FindPageCall(n, t, c)
    \/ NoCallYet /\ \E st \in InsertStatements, d \in DestKinds : SaveReturningKey(st, d)
    \/ NoCallYet /\ txPc = "idle" /\ Begin
    \/ NoCallYet /\ \E st \in InsertStatements, d \in DestKinds : SaveReturningKeyTx(st, d)

SpecIter == InitShape /\ [][NextIter]_vars

\* ------------------------------------------- traversal, single-column key
\* user_id values, the empty string (0) among them
ScanKeys == 0..MaxScanKey
ScanTables == {{[user_id |-> k, email |-> 1] : k \in S} : S \in SUBSET ScanKeys}
ScanSizes == 1..MaxScanSize

InitScan ==
    /\ table \in ScanTables
    /\ last = KeyCall("none", UserKey(0), <<>>, Failure(NoErr))
    /\ InitTxIdle
    /\ InitAux

\* one FindPage call of a caller that passes the returned token back verbatim
ScanPage(size, token) ==
    LET out == FindPage(table, size, token, <<>>)
    IN /\ last' = Call("FindPage", ZeroUser, UserKey(0), <<>>, size, token, out)
       /\ dbOps' = OpenedIterator("Query")
       /\ travSeen' = travSeen \o out.list
       /\ travPc' = IF out.list = <<>> THEN "ended" ELSE "running"
       /\ UNCHANGED <<table, txVars, dest, travBounds>>

ScanStart(size) ==
    /\ travPc = "idle"
    /\ ScanPage(size, NilVal)

\* the caller goes on until a page is empty; the model follows it for at most
\* MaxScanRepeat rows more than the table holds
ScanNext ==
    /\ travPc = "running"
    /\ last.out.err = NoErr
    /\ Len(travSeen) < Cardinality(table) + MaxScanRepeat
    /\ ScanPage(last.size, last.out.token)

NextScan ==
    \/ \E n \in ScanSizes : ScanStart(n)
    \/ ScanNext

SpecScan == InitScan /\ [][NextScan]_vars /\ WF_vars(NextScan)

\* ------------------------------------------------------------------ claims
\* the projections userRowMapper decodes into the fields they name
AcceptedProjections == {c \in Projections : buildColumnList(c) = columns}

\* the key values whose fields map onto the primary-key columns
WellFormedKeys == {UserKey(k) : k \in Keys} \cup {PtrUserKey(k) : k \in Keys}

KeyId(key) == key.fields[1].val

\* C1: after Save(e) has returned without error, FindByID with e's key and a
\* projection the decoder accepts returns (e, true, nil), whatever the table
\* held before.
C1_SaveFindRoundTrip ==
    (last.op = "Save" /\ last.out.err = NoErr) =>
        \A c \in AcceptedProjections :
            \A key \in {UserKey(last.entity.UserID), PtrUserKey(last.entity.UserID)} :
                FindByID(table, key, c) = Result(last.entity, TRUE, NoErr, <<>>, NilVal)

C1_Witness ==
    /\ last.op = "Save"
    /\ last.out.err = NoErr
    /\ Cardinality(table) >= 2
    /\ FindByID(table, UserKey(last.entity.UserID), columns).found

\* C2: FindByID with a well-formed key that has no row returns
\* (zero value, false, nil): the error is nil, never a sentinel.
C2_AbsentKeyNilError ==
    (last.op = "FindByID" /\ last.key \in WellFormedKeys /\ ~HasRow(table, KeyId(last.key))) =>
        last.out = Failure(NoErr)

\* C3: Exists(k) returns true exactly when FindByID(k, columns) returns
\* found = true.
C3_ExistsIffFound ==
    last.op = "Exists" =>
        (last.out.found <=> FindByID(table, last.key, columns).found)

\* C4: after Delete(k) has returned without error a following FindByID(k)
\* returns found = false, and the Delete removed no row with another key.
C4_DeleteThenFind ==
    [][\A k \in KeyValues :
          (Delete(k, FALSE) /\ last'.out.err = NoErr) =>
              /\ \A c \in Projections : ~FindByID(table', k, c).found
              /\ \A r \in table :
                    RowKey(r, primaryKey) # KeyTuple(structToMap(k).map, primaryKey)
                        => r \in table']_vars

C4_Witness ==
    /\ last.op = "Delete"
    /\ last.out.err = NoErr
    /\ last.key \in WellFormedKeys
    /\ Cardinality(table) >= 1
    /\ ~HasRow(table, KeyId(last.key))

\* the i-th buffered mutation is not overridden by a later one on the same key
Effective(buf, i) == \A j \in (i + 1)..Len(buf) : buf[j].key # buf[i].key

\* every buffered mutation's effect is in tbl, the rest of tbl is as in base
AllVisible(tbl, base, buf) ==
    /\ \A i \in 1..Len(buf) :
          Effective(buf, i) =>
              IF buf[i].kind = "upsert" THEN buf[i].row \in tbl
              ELSE \A r \in tbl : RowKey(r, primaryKey) # buf[i].key
    /\ \A r \in tbl \cup base :
          (\A i \in 1..Len(buf) : buf[i].key # RowKey(r, primaryKey))
              => (r \in tbl <=> r \in base)

\* the buffered mutations would change the table
BufferMatters == Len(txBuffer) = 2 /\ ~AllVisible(txSnapshot, txSnapshot, txBuffer)

\* C5: after RunInTransaction has returned, the mutations buffered in a
\* unit-of-work that returned an error are not visible (the table is as it was
\* before the call), and those of a unit-of-work that returned no error are
\* all visible.
C5_RollbackOrCommit ==
    txPc = "done" =>
        IF txUowErr # NoErr THEN table = txSnapshot
        ELSE AllVisible(table, txSnapshot, txBuffer)

C5_Witness ==
    /\ txPc = "done"
    /\ txUowErr # NoErr
    /\ BufferMatters
    /\ table = txSnapshot

\* C6: a read by another caller (FindByID, FindAll) observes none of the
\* unit-of-work's mutations before the commit and all of them after it, never
\* a strict subset.
C6_ReadsSeeNoneOrAll ==
    txPc # "idle" =>
        LET none == /\ FindAll(table, columns) = FindAll(txSnapshot, columns)
                    /\ \A k \in TxKeys : FindByID(table, UserKey(k), columns)
                                           = FindByID(txSnapshot, UserKey(k), columns)
            all == /\ FindAll(table, columns).err = NoErr
                   /\ AllVisible({[user_id |-> FindAll(table, columns).list[i].UserID,
                                   email |-> FindAll(table, columns).list[i].Email] :
                                      i \in 1..Len(FindAll(table, columns).list)},
                                 txSnapshot, txBuffer)
        IN IF committed THEN all ELSE none

C6_Witness ==
    /\ txPc = "open"
    /\ BufferMatters
    /\ last.op = "FindAll"
    /\ last.out = FindAll(txSnapshot, columns)

\* C7: every RunInTransaction invocation ends either rolled back, returning
\* the unit-of-work's error, or committed when the unit-of-work returned no
\* error; never both, never neither.
C7_TwoTerminalOutcomes ==
    txPc = "done" =>
        /\ committed # rolledBack
        /\ txUowErr # NoErr => (rolledBack /\ txRet = txUowErr)
        /\ txUowErr = NoErr => committed

C7_Witness ==
    /\ txPc = "done"
    /\ txUowErr = ErrUow
    /\ rolledBack
    /\ ~committed
    /\ txBuffer # <<>>

\* the rows a page may draw from: all of them for an absent or empty token,
\* else those with a key strictly greater than the token
PageEligible(tbl, token) ==
    IF token = NilVal \/ token = 0 THEN tbl ELSE {r \in tbl : r.user_id > token}

PageIds == [i \in 1..Len(last.out.list) |-> last.out.list[i].UserID]

Min(a, b) == IF a <= b THEN a ELSE b

\* C8: on the single-column key, FindPage(pageSize, token) returns, in
\* ascending key order, exactly the min(pageSize, remaining) rows with the
\* smallest keys strictly greater than token, and the first rows of the whole
\* table when the token is absent or empty.
C8_FindPageWindow ==
    (last.op = "FindPage" /\ last.cols \in AcceptedProjections) =>
        LET el == {r.user_id : r \in PageEligible(table, last.token)}
            n == Len(PageIds)
        IN /\ last.out.err = NoErr
           /\ n = Min(last.size, Cardinality(el))
           /\ \A i \in 1..n :
                 /\ PageIds[i] \in el
                 /\ [user_id |-> PageIds[i], email |-> last.out.list[i].Email] \in table
           /\ \A i \in 1..(n - 1) : PageIds[i] < PageIds[i + 1]
           /\ \A k \in el : (\A i \in 1..n : PageIds[i] # k) => \A i \in 1..n : PageIds[i] < k

C8_Witness ==
    /\ last.op = "FindPage"
    /\ last.cols = columns
    /\ {r.user_id : r \in table} = 1..5
    /\ last.size = 2
    /\ last.token = 2
    /\ PageIds = <<3, 4>>

\* C9: for a FindPage call that succeeds, nextToken is the first
\* primary-key-column value of the last row of the page, and it is absent
\* exactly when the page is empty.
C9_NextTokenIsLastKey ==
    (last.op = "FindPage" /\ last.out.err = NoErr) =>
        LET n == Len(last.out.list)
            lastRowKey == IF last.cols = <<"email", "user_id">>
                          THEN last.out.list[n].Email ELSE last.out.list[n].UserID
        IN /\ (n = 0) <=> (last.out.token = NilVal)
           /\ n > 0 => last.out.token = lastRowKey

C9_Witness ==
    /\ last.op = "FindPage"
    /\ last.out.err = NoErr
    /\ Len(last.out.list) = 2
    /\ last.out.token = last.out.list[2].UserID
    /\ last.out.token # last.out.list[1].UserID

\* a successful call returned the final rows of the table
FinalPage ==
    /\ last.op = "FindPage"
    /\ last.cols \in AcceptedProjections
    /\ last.out.err = NoErr
    /\ last.out.list # <<>>
    /\ ~\E r \in table : r.user_id > last.out.list[Len(last.out.list)].UserID

\* C10: when a FindPage call returns the final rows of the table, the
\* nextToken it returns is empty or absent.
C10_FinalPageTokenAbsent ==
    FinalPage => last.out.token \in {NilVal, 0}

\* C10 (amended): when a FindPage call returns the final rows of the table,
\* the nextToken it returns is the key of the last returned row, not absent.
C10_FinalPageTokenIsLastKey ==
    FinalPage =>
        /\ last.out.token # NilVal
        /\ last.out.token = last.out.list[Len(last.out.list)].UserID

C10_Witness ==
    /\ FinalPage
    /\ {r.user_id : r \in table} = 1..5
    /\ last.size = 2
    /\ last.token = 4
    /\ PageIds = <<5>>
    /\ last.out.token = 5

\* ---- C11
\* the number of times the traversal returned the row r
TimesSeen(r) ==
    Cardinality({i \in 1..Len(travSeen) :
                    travSeen[i] = [UserID |-> r.user_id, Email |-> r.email]})

\* a page ended on a row that shares r's first key column and sorts before r
SplitOff(r) == \E b \in travBounds : b.UserID = r.user_id /\ b.Email < r.email

\* C11: with the composite key (user_id, email) a token-following traversal of a static
\* table never returns a row twice, and once it has ended it has returned every row
\* exactly once except the rows a page boundary split off from rows with the same
\* user_id: those it has skipped. So a table and a page size exist for which not
\* every row is returned exactly once.
C11_CompositeTraversalSkips ==
    /\ \A r \in table : TimesSeen(r) <= 1
    /\ travPc = "ended" =>
          \A r \in table : TimesSeen(r) = IF SplitOff(r) THEN 0 ELSE 1

\* a finished traversal that skipped a row whose user_id it had already passed
C11_Witness ==
    /\ travPc = "ended"
    /\ \E r \in table : TimesSeen(r) = 0 /\ SplitOff(r)

\* ---- C12
\* the key decodes to a map that lacks an entry for some primary-key column
MissingMapping(key) ==
    /\ structToMap(key).err = NoErr
    /\ \E i \in 1..Len(primaryKey) : primaryKey[i] \notin DOMAIN structToMap(key).map

\* the key values the last call was given
LastKeys == IF last.op = "FindByIDs" THEN {last.keys[i] : i \in 1..Len(last.keys)}
            ELSE {last.key}

\* C12: FindByID, Exists, FindByIDs, Delete and DeleteTx given a key value with no field
\* mapped to a primary-key column fail with an error and issue no read and no mutation.
C12_MissingMappingFails ==
    (/\ last.op \in {"FindByID", "Exists", "FindByIDs", "Delete", "DeleteTx"}
     /\ \E k \in LastKeys : MissingMapping(k))
        => last.out.err # NoErr /\ dbOps = <<>>

\* ---- C13
\* the call returned InvalidTransactionType and buffered nothing
RejectedHandle ==
    /\ last'.out.err = ErrInvalidTx
    /\ txBuffer' = txBuffer
    /\ dbOps' = <<>>
    /\ table' = table

\* C13: SaveTx, UpdateTx and DeleteTx given a handle that is not *SpannerTransaction
\* return the invalid-transaction-type error and buffer no mutation; DeleteTx does so
\* whatever the key value is (well formed, unmapped, or not a struct).
C13_ForeignHandleRejected ==
    [][/\ \A e \in TxUsers : (SaveTx("other", e) \/ UpdateTx("other", e)) => RejectedHandle
       /\ \A k \in TxKeyValues : DeleteTx("other", k) => RejectedHandle]_vars

\* DeleteTx was given a foreign handle together with a bare string key, after a write
\* through the real handle had been buffered
C13_Witness ==
    /\ last.op = "DeleteTx"
    /\ last.key.kind = "string"
    /\ last.out.err = ErrInvalidTx
    /\ txPc = "open"
    /\ Len(txBuffer) = 1

\* ---- C14
\* C14: when the insert statement generates a key not yet in the table and yields it as
\* one result row, SaveReturningKey (given a destination the column decodes into)
\* returns no error, has written that non-empty key through the destination, and has
\* committed the row: FindByID with the key returns the inserted entity.
C14_ReturningKeyCommitted ==
    [][\A st \in InsertStatements :
          (SaveReturningKey(st, TRUE) /\ st.returns /\ ~HasRow(table, st.key))
              => /\ last'.out.err = NoErr
                 /\ dest' = st.key
                 /\ dest' # 0 /\ dest' # NilVal
                 /\ FindByID(table', UserKey(dest'), columns)
                      = Result([UserID |-> st.key, Email |-> st.email], TRUE, NoErr,
                               <<>>, NilVal)]_vars

\* outside any transaction, a FindByID with the key that SaveReturningKey wrote through
\* the destination has found the row
C14_Witness ==
    /\ txPc = "idle"
    /\ dest # NilVal
    /\ last.op = "FindByID"
    /\ KeyId(last.key) = dest
    /\ last.out.found
    /\ last.out.entity.UserID = dest

\* ---- C15
\* C15: SaveReturningKeyTx commits nothing itself: the call leaves the table as it
\* was, so while the unit-of-work runs the table is still the one the transaction
\* started from; the inserted rows are in the table once the unit-of-work has returned
\* no error, and the table is unchanged once it has returned an error.
C15_TxInsertVisibleOnCommitOnly ==
    /\ [](txPc = "open" => table = txSnapshot)
    /\ [][/\ \A st \in InsertStatements, d \in DestKinds :
              SaveReturningKeyTx(st, d) => table' = table
          /\ UowReturn(NoErr) =>
                \A i \in 1..Len(txDml) : txDml[i].row \in table'
          /\ UowReturn(ErrUow) => table' = table /\ table' = txSnapshot]_vars

\* the unit-of-work inserted a row and returned nil; a FindByID after the commit has
\* found the row, which the table did not hold when the transaction began
C15_Witness ==
    /\ txPc = "done" /\ committed
    /\ Len(txDml) = 1
    /\ ~HasRow(txSnapshot, txDml[1].row.user_id)
    /\ last.op = "FindByID"
    /\ KeyId(last.key) = txDml[1].row.user_id
    /\ last.out.found

\* ---- C16
\* the table and the error an upsert of e leaves behind, whatever the table held
UpsertTable(tbl, e, applyFails) ==
    IF applyFails THEN tbl
    ELSE {r \in tbl : r.user_id # e.UserID} \cup {[user_id |-> e.UserID, email |-> e.Email]}

UpsertErr(applyFails) == IF applyFails THEN ErrApply ELSE NoErr

\* C16: for every entity and every prior table, Save and Update leave the same table
\* and return the same value: both apply the entity's upsert. Update does not look
\* for an existing row; given an entity whose key has no row it creates the row.
C16_SaveUpdateIdentical ==
    [][\A f \in BOOLEAN :
          LET e == last'.entity   \* the entity of the call this step made
          IN /\ Save(e, f) => /\ table' = UpsertTable(table, e, f)
                              /\ last'.out.err = UpsertErr(f)
             /\ Update(e, f) => /\ table' = UpsertTable(table, e, f)
                                /\ last'.out.err = UpsertErr(f)
             /\ (Update(e, FALSE) /\ ~HasRow(table, e.UserID))
                   => [user_id |-> e.UserID, email |-> e.Email] \in table']_vars

\* an Update that returned nil, after which its entity's row is the only row
C16_Witness ==
    /\ last.op = "Update"
    /\ last.out.err = NoErr
    /\ table = {[user_id |-> last.entity.UserID, email |-> last.entity.Email]}

\* ---- C17
\* C17: FindByIDs given an empty key list returns an empty result and a nil error
\* whatever the table holds; it never returns all rows.
C17_EmptyKeyListEmptyResult ==
    (last.op = "FindByIDs" /\ last.keys = <<>>)
        => last.out.list = <<>> /\ last.out.err = NoErr

\* FindByIDs with an empty key list has returned on a table that holds rows
C17_Witness ==
    /\ last.op = "FindByIDs"
    /\ last.keys = <<>>
    /\ Cardinality(table) = 2
    /\ last.out.err = NoErr

\* ---- C18
\* C18: the example transactional user repository's DeleteTx(ctx, tx, userID), called
\* in a unit-of-work that then commits, returns no error, and after the commit the
\* table holds no User with that ID.
C18_ExampleDeleteTxRemoves ==
    /\ [][\A k \in TxKeys :
            userTxRepositoryDeleteTx("*SpannerTransaction", k) => last'.out.err = NoErr]_vars
    /\ [](\A k \in TxKeys :
            (/\ last.op = "DeleteTx" /\ last.key = StringKey(k)
             /\ txPc = "done" /\ committed)
                => ~HasRow(table, k))

\* ---- C19
\* C19: when the statement yields no result row, or its first column does not decode
\* into the destination, SaveReturningKey returns an error and its transaction is not
\* committed: the table is as it was, although the transaction had executed the insert.
C19_FailedReturningKeyRolledBack ==
    [][\A st \in InsertStatements, d \in DestKinds :
          (SaveReturningKey(st, d) /\ ~HasRow(table, st.key) /\ (~st.returns \/ ~d))
              => /\ ReturningQuery(table, st, d, dest).dml # <<>>
                 /\ last'.out.err \in {IteratorDone, ErrDecode}
                 /\ table' = table
                 /\ ~HasRow(table', st.key)]_vars

\* SaveReturningKey has failed on the decode of a row its insert had produced, and the
\* table holds no row with the generated key
C19_Witness ==
    /\ last.op = "SaveReturningKey"
    /\ last.out.err = ErrDecode
    /\ ~HasRow(table, last.entity.UserID)
    /\ table # {}

\* ---- C20
\* the key values that are neither a struct nor a pointer to a struct
NonStructKeys == {k \in ShapeKeyValues : k.kind \notin {"struct", "ptr"}}

\* the key lists holding such a value at some position
NonStructLists ==
    {ks \in ShapeKeyLists : \E i \in 1..Len(ks) : ks[i] \in NonStructKeys}

\* the call invoked no capability: nothing read, applied or buffered
NoCapabilityUse ==
    /\ dbOps' = <<>>
    /\ table' = table
    /\ txBuffer' = txBuffer

KeyShapeRejected == last'.out.err = ErrKeyShape /\ NoCapabilityUse

\* FindByID, Exists, Delete and FindByIDs reject a key that is not a struct
ReadsAndDeleteRejectShape ==
    /\ \A k \in NonStructKeys :
          (FindByIDCall(k, columns) \/ ExistsCall(k) \/ Delete(k, FALSE)) => KeyShapeRejected
    /\ \A ks \in NonStructLists : FindByIDsCall(ks, columns) => KeyShapeRejected

\* C20 as stated: FindByID, Exists, FindByIDs (for any element of the key list), Delete
\* and DeleteTx given a key value that is not a struct or a pointer to a struct return
\* the key-shape error and invoke no capability, DeleteTx with whatever handle.
C20_NonStructKeyRejectedAnyHandle ==
    [][/\ ReadsAndDeleteRejectShape
       /\ \A tx \in TxHandles, k \in NonStructKeys :
             DeleteTx(tx, k) => KeyShapeRejected]_vars

\* C20, amended: FindByID, Exists, FindByIDs (for any element of the key list), Delete,
\* and DeleteTx given a *SpannerTransaction handle, return the key-shape error for a
\* key value that is not a struct or a pointer to a struct and invoke no capability;
\* DeleteTx given any other handle returns the invalid-transaction-type error for
\* such a key, also without invoking a capability.
C20_NonStructKeyRejected ==
    [][/\ ReadsAndDeleteRejectShape
       /\ \A k \in NonStructKeys :
             /\ DeleteTx("*SpannerTransaction", k) => KeyShapeRejected
             /\ DeleteTx("other", k) =>
                   (last'.out.err = ErrInvalidTx /\ NoCapabilityUse)]_vars

\* FindByIDs has rejected a list whose second element is a bare string, on a table
\* that holds the row of its first element, without a Read
C20_Witness ==
    /\ last.op = "FindByIDs"
    /\ Len(last.keys) = 2
    /\ last.keys[1].kind = "struct" /\ HasRow(table, KeyId(last.keys[1]))
    /\ last.keys[2].kind = "string"
    /\ last.out.err = ErrKeyShape
    /\ dbOps = <<>>

\* ---- C21
\* the value a key struct carries for a column, found by the field's tag
TaggedValue(key, col) ==
    LET i == CHOOSE j \in 1..Len(key.fields) : key.fields[j].tag = col
    IN key.fields[i].val

\* the rows the supplied keys name
NamedRows ==
    {r \in table : \E i \in 1..Len(last.keys) :
        /\ TaggedValue(last.keys[i], "user_id") = r.user_id
        /\ TaggedValue(last.keys[i], "email") = r.email}

\* C21: with primaryKeys (user_id, email), FindByIDs returns exactly the rows whose
\* (user_id, email) is named by one of the supplied keys, whichever order the key
\* struct declares its fields in: each such row once, keys without a row left out
\* without error, and no other row.
C21_FindByIDsExactKeySet ==
    last.op = "FindByIDs" =>
        /\ last.out.err = NoErr
        /\ {last.out.list[i] : i \in 1..Len(last.out.list)}
              = {[UserID |-> r.user_id, Email |-> r.email] : r \in NamedRows}
        /\ Len(last.out.list) = Cardinality(NamedRows)

\* FindByIDs was given a key with its fields declared email first, naming a row that
\* exists, and a key that names no row; it returned the one row, while the table
\* holds another it was not asked for
C21_Witness ==
    /\ last.op = "FindByIDs"
    /\ Len(last.keys) = 2
    /\ last.keys[1].fields[1].tag = "email"
    /\ last.keys[1].fields[1].val # last.keys[1].fields[2].val
    /\ Len(last.out.list) = 1
    /\ last.out.list[1].UserID = last.keys[1].fields[2].val
    /\ last.out.list[1].Email = last.keys[1].fields[1].val
    /\ \A r \in table : TaggedValue(last.keys[2], "email") # r.email
    /\ Cardinality(table) = 1

\* ---- C22
ReadingOps ==
    {"FindByID", "FindAll", "FindByIDs", "FindPage", "SaveReturningKey", "SaveReturningKeyTx"}

\* the positions at which the call opened a row iterator
Opened(ops) == {i \in 1..Len(ops) : ops[i] \in {"Query", "Read"}}

\* every iterator the call opened was stopped before the call returned
IteratorsStopped(ops) == \A i \in Opened(ops) : i < Len(ops) /\ ops[i + 1] = "Stop"

\* C22: when FindByID, FindAll, FindByIDs, FindPage, SaveReturningKey or
\* SaveReturningKeyTx has returned, the row iterator it opened has been stopped,
\* whether it returned rows, no row, an execution error or a decode error; the only
\* calls that open no iterator are those that reject the key before any read.
C22_IteratorsStoppedOnReturn ==
    last.op \in ReadingOps =>
        /\ IteratorsStopped(dbOps)
        /\ last.out.err # ErrKeyShape => Opened(dbOps) # {}

\* FindByID has returned the decoder's error for a row it had read, and the iterator
\* of its query is stopped
C22_Witness ==
    /\ last.op = "FindByID"
    /\ last.out.err = ErrNumOfColValue
    /\ Opened(dbOps) # {}
    /\ IteratorsStopped(dbOps)

\* ---- C23
\* the traversal has returned the rows in ascending key order, none of them twice
ScanAscending ==
    \A i, j \in 1..Len(travSeen) : i < j => travSeen[i].UserID < travSeen[j].UserID

\* the traversal has returned every row of the table
ScanComplete ==
    \A r \in table : \E i \in 1..Len(travSeen) : travSeen[i].UserID = r.user_id

\* C23: on a static table with the single-column key user_id and pageSize >= 1, a
\* caller that starts with no token and passes every nextToken back eventually gets
\* an empty page, and by then has been returned every row exactly once, in
\* ascending key order, the row with the empty-string key included.
C23_TraversalTerminatesComplete ==
    /\ [](ScanAscending /\ (travPc = "ended" => ScanComplete))
    /\ <>(travPc = "ended")

====
